---- MODULE Spec2Model ----
(***************************************************************************)
(* A model of deside/simulation/generate_data.py: the resumable generation *)
(* loop BulkGEPGenerator.generate_gep with its on-disk artifacts, the      *)
(* marker-ratio quota filter, and the cell-fraction samplers.              *)
(*                                                                         *)
(* Fractions and quantiles are fixed-point integers, counted in units of    *)
(* 0.0001.                                                                 *)
(***************************************************************************)
EXTENDS Integers, Sequences, FiniteSets, TLC

\* ------------------------------------------------------------------ bounds
\* rounds one job may run (caps n_round in the guards)
MaxRound == 2
\* times the process may be killed and started again
MaxKill == 1
\* largest L1 distance a drawn candidate may have
MaxVal == 1
\* candidates of one batch that may lie close enough to pass a filter
MaxCand == 2
\* reference points that may have a candidate within the radius
MaxRefs == 2
\* period of the seeded random stream
StreamLen == 4
\* rounds the uninterrupted reference run is followed for
RefMaxRound == 8

\* ------------------------------------------------------- program constants
\* self.filtering_quantile_lower = None (the lower quantile is optional)
None == -1
\* min_n_cell_frac = np.min([5000, n_samples]) with filtering
BatchFiltering == 5000
\* min_n_cell_frac = np.min([1000, n_samples]) without filtering
BatchNoFiltering == 1000
\* simulated_gep.shape[0] < 50: the low-yield floor
LowYieldFloor == 50
\* if self.filtering_quantile_upper < 0.999
QuantileStepSwitch == 9990
\* self.filtering_quantile_upper += 0.001
QuantileBigStep == 10
\* self.filtering_quantile_upper += 0.0001
QuantileSmallStep == 1
\* the quantile 1.0, the largest np.quantile accepts
QuantileOne == 10000
\* n_ref - 1000: reference samples skipped in the quota
RefSkip == 1000

\* the cell types of the dataset, in the order of cell_type_used
CellTypes == <<"B Cells", "CD4 T", "NK">>
\* most fraction vectors one call of _generate_cell_fraction is asked for
MaxFracSamples == 3
\* max_value of segment_generation_fraction
MaxValue == 10000
\* most samples in a batch that is followed through the cell picker and
\* the mixer
MaxMixSamples == 2

\* ------------------------------------------------------------------ helpers
Min(a, b) == IF a < b THEN a ELSE b

Max(a, b) == IF a > b THEN a ELSE b

\* int(np.ceil(a / b)) for b # 0; Python's int() truncates -0.x to 0
CeilDiv(a, b) ==
    LET n == IF b < 0 THEN -a ELSE a
        d == IF b < 0 THEN -b ELSE b
    IN  IF n >= 0 THEN (n + d - 1) \div d ELSE -((-n) \div d)

Range(s) == {s[i] : i \in 1..Len(s)}

RECURSIVE SeqOfSet(_)
\* the elements of a finite set of integers, ascending
SeqOfSet(S) ==
    IF S = {} THEN <<>>
    ELSE LET m == CHOOSE x \in S : \A y \in S : x <= y
         IN  <<m>> \o SeqOfSet(S \ {m})

RECURSIVE Flatten(_)
Flatten(ss) == IF Len(ss) = 0 THEN <<>> ELSE Head(ss) \o Flatten(Tail(ss))

\* --------------------------------------------------------------- sample ids
Digits == <<"0", "1", "2", "3", "4", "5", "6", "7", "8", "9">>

RECURSIVE Str(_)
\* str(n) of a natural number: its decimal digits
Str(n) == IF n < 10 THEN Digits[n + 1] ELSE Str(n \div 10) \o Digits[(n % 10) + 1]

IsInt(s) == \E n \in 0..9 : Digits[n + 1] = s

\* int(s); only used where IsInt(s)
ToInt(s) == CHOOSE n \in 0..9 : Digits[n + 1] = s

SamplingMethods == {"segment", "seg_random", "fragment", "random"}

\* sample_prefix=f's_{sampling_method}_{self.n_round}': the pieces the
\* f-string joins with '_'
SamplePrefix(method, n_round) == <<"s", method, Str(n_round)>>

\* segment, seg_random and fragment number their samples from 1, random from 0
FirstIndex(method) == IF method = "random" THEN 0 ELSE 1

\* index = [sample_prefix + '_' + str(i + 1) ...]: the id of the i-th
\* (1-based) sample of a batch
SampleId(method, n_round, i) ==
    SamplePrefix(method, n_round) \o <<Str(i - 1 + FirstIndex(method))>>

\* '_'.split of one piece: only the method name seg_random holds a '_'
SplitPiece(p) == IF p = "seg_random" THEN <<"seg", "random">> ELSE <<p>>

\* name.split('_')
SplitId(id) == Flatten([k \in 1..Len(id) |-> SplitPiece(id[k])])

\* 'seg_random' in name
HasSegRandom(id) == \E k \in 1..Len(id) : id[k] = "seg_random"

\* the token int() is applied to: split('_')[3] for seg_random, else [2]
\* (Python indexes from 0)
RoundTokenAlways2(id) == SplitId(id)[3]

RoundToken(id) == IF HasSegRandom(id) THEN SplitId(id)[4] ELSE SplitId(id)[3]

\* --------------------------------------------------------------------- jobs
\* One call of generate_gep: its arguments, and what the reference cohort
\* gives for them (n_ref rows; dist_lower and dist_upper are
\* np.quantile(l1_distance_with_center_ref, q) for the two quantiles).
Job(n, method, filtering, fmethod, ref, ql, qu, dl, du, grange, nref) ==
    [n_samples |-> n, sampling_method |-> method, filtering |-> filtering,
     filtering_method |-> fmethod, has_ref |-> ref,
     q_lower |-> ql, q_upper |-> qu, dist_lower |-> dl, dist_upper |-> du,
     gene_range |-> grange, n_ref |-> nref, n_top |-> 20]

\* segment sampling, L1 band filter, lower quantile left at its default None
JobL1None == Job(2, "segment", TRUE, "median_gep", TRUE, None, 9500, 0, 0, FALSE, 2)

\* seg_random sampling, L1 band filter with both quantiles
JobL1Band == Job(2, "seg_random", TRUE, "median_gep", TRUE, 500, 9500, 1, 1, FALSE, 2)

\* fragment sampling, L1 filter around the mean profile, upper bound only
JobL1Frag == Job(2, "fragment", TRUE, "mean_gep", TRUE, None, 9500, 0, 0, FALSE, 2)

\* marker-ratio filter, as many reference points as samples: quota 1
JobMarker == Job(2, "fragment", TRUE, "marker_ratio", TRUE, None, 9999, 0, 0, FALSE, 2)

\* marker-ratio filter, fewer reference points than samples: quota 2
JobMarkerBig == Job(3000, "fragment", TRUE, "marker_ratio", TRUE, None, 9980, 0, 0, FALSE, 2500)

\* a marker-ratio job whose rounds can pass the low-yield floor: a cohort of
\* 1001 gives the quota ceil(1100 / 1), and n_top is 50 neighbors per point
JobMarkerYield ==
    [Job(1100, "fragment", TRUE, "marker_ratio", TRUE, None, 9980, 0, 0, FALSE, 1001)
        EXCEPT !.n_top = 50]

\* marker-ratio filter and gene-range filter together
JobMarkerRange == Job(2, "fragment", TRUE, "marker_ratio", TRUE, None, 9980, 0, 0, TRUE, 2)

\* pure random sampling, no filtering
JobRandom == Job(2, "random", FALSE, "media_gep", FALSE, None, 9500, 0, 0, FALSE, 0)

\* filtering is asked for and no reference is given
JobNoRef == Job(2, "segment", TRUE, "median_gep", FALSE, None, 9500, 0, 0, FALSE, 0)

\* filtering with the default filtering_method of generate_gep
JobDefaultFilter == Job(2, "segment", TRUE, "media_gep", TRUE, None, 9500, 0, 0, FALSE, 2)

Jobs ==
    {JobL1None, JobL1Band, JobL1Frag, JobMarker, JobMarkerBig, JobRandom, JobNoRef,
     JobDefaultFilter, JobMarkerYield, JobMarkerRange}

\* the jobs whose filter is a function of the drawn values alone
SeedJobs == {JobL1Band, JobL1Frag}

IsL1(j) == j.filtering /\ j.filtering_method \in {"median_gep", "mean_gep"}

IsMarker(j) == j.filtering /\ j.filtering_method = "marker_ratio"

\* min_n_cell_frac, with the single-cell-type dataset (sct_dataset) as pool
MinNCellFrac(j) ==
    IF j.filtering THEN Min(BatchFiltering, j.n_samples)
    ELSE Min(BatchNoFiltering, j.n_samples)

\* the candidates of a batch a filter may let pass: 1-based positions
Cands(j) == 1..Min(MinNCellFrac(j), MaxCand)

\* the reference points that may get a neighbor; the other points of the
\* cohort keep a count of 0 throughout
Refs(j) == 1..Min(j.n_ref, MaxRefs)

\* the values a drawn candidate may have: its L1 distance to the centroid,
\* which only the L1 band filter reads
Vals(j) == IF IsL1(j) THEN 0..MaxVal ELSE {0}

\* ------------------------------------------------------------------- state
VARIABLES
    job,       \* the arguments of generate_gep, the same for every run
    stream,    \* the random stream of the fixed seed; <<>> when not seeded
    rngPos,    \* values of the stream this process has consumed
    pc,        \* where the process is
    killedAt,  \* pc at the last kill
    kills,     \* kills so far
    mem,       \* the attributes of the BulkGEPGenerator object and the
               \* locals of generate_gep
    disk,      \* the files under simu_bulk_dir
    frac_call,       \* the arguments of the last _generate_cell_fraction
    gen_cell_fracs,  \* what that call returned
    mix,             \* one batch on its way through _sc_sampling and
                     \* _map_cell_id2exp
    drawn            \* history: the candidates drawn by every process of
                     \* the job so far

vars == <<job, stream, rngPos, pc, killedAt, kills, mem, disk, frac_call, gen_cell_fracs, mix, drawn>>

\* no call of _generate_cell_fraction yet
NoPrior == [given |-> FALSE, lo |-> 0, hi |-> 0]

NoCall ==
    [sampling_method |-> "none", n_cell_frac |-> 0, cell_type_used |-> <<>>,
     random_n_cell_type |-> <<>>, has_list |-> FALSE, cell_prop_prior |-> NoPrior]

\* message: the strategy names an error message lists
NoFracs ==
    [returned |-> FALSE, raised |-> FALSE, columns |-> <<>>, rows |-> <<>>,
     message |-> {}]

\* no batch is being mixed
NoMix ==
    [pc |-> "none", cell_frac |-> <<>>, draws |-> <<>>, tasks |-> <<>>,
     results |-> <<>>, completed |-> <<>>, sampled_cell_ids |-> <<>>,
     linear |-> <<>>, simulated_exp |-> <<>>]

NoFile == [exists |-> FALSE, rows |-> <<>>]

NoGep == [isNone |-> TRUE, rows |-> <<>>]

\* BulkGEPGenerator.__init__: the attributes of a new object
NewObject ==
    [generated_bulk_gep_counter |-> 0,
     n_round |-> 0,
     q_dis_nn_ref_upper |-> 0,
     q_dis_nn_ref_lower |-> 0,
     filtering_quantile_upper |-> 0,
     filtering_quantile_lower |-> None,
     marker_ratio_ref |-> FALSE,
     m_gep_ref |-> FALSE,
     n_neighbors_each_ref |-> 1,
     ref_neighbor_counter |-> <<>>,
     n_top |-> 0,
     simulated_gep |-> NoGep,
     filtered |-> <<>>]

EmptyDisk ==
    [generated_bulk_gep_csv |-> NoFile,
     sampled_sc_cell_id |-> NoFile,
     generated_cell_fraction |-> NoFile,
     ref_neighbor_counter |-> NoFile,
     h5ad |-> FALSE]

InitWith(J, S) ==
    /\ job \in J
    /\ stream \in S
    /\ rngPos = 0
    /\ pc = "idle"
    /\ killedAt = "none"
    /\ kills = 0
    /\ mem = NewObject
    /\ disk = EmptyDisk
    /\ frac_call = NoCall
    /\ gen_cell_fracs = NoFracs
    /\ mix = NoMix
    /\ drawn = 0

Init == InitWith(Jobs, {<<>>})

\* a fixed seed: the same stream in every process of the job
InitSeed == InitWith(SeedJobs, [1..StreamLen -> 0..MaxVal])

\* ------------------------------------------------------------------ resume
Ids(rows) == [k \in 1..Len(rows) |-> rows[k].id]

\* df[~df.index.duplicated(keep='first')]: a row stays when no row before
\* it has its id
Dedup(rows) ==
    LET numbered == [k \in 1..Len(rows) |-> [k |-> k, row |-> rows[k]]]
        first == SelectSeq(numbered,
                           LAMBDA e : \A j \in 1..(e.k - 1) : rows[j].id # e.row.id)
    IN  [k \in 1..Len(first) |-> first[k].row]

\* common_inx = [i for i in gen_cell_frac.index if i in gen_bulk_gep.index]
CommonInx(frac, gep) == SelectSeq(Ids(frac), LAMBDA i : i \in Range(Ids(gep)))

\* the outcome of _check_intermediate_generated_gep on disk d for object m:
\* the object, the disk, and whether an exception left the function
CheckIntermediate(m, d) ==
    LET frac == Dedup(d.generated_cell_fraction.rows)
        gep == Dedup(d.generated_bulk_gep_csv.rows)
        common == CommonInx(frac, gep)
        last == frac[Len(frac)].id
        m1 == [m EXCEPT !.generated_bulk_gep_counter = Len(common)]
        m2 == [m1 EXCEPT !.n_round = ToInt(RoundToken(last)) + 1]
        m3 == IF d.ref_neighbor_counter.exists
              THEN [m2 EXCEPT !.ref_neighbor_counter = d.ref_neighbor_counter.rows]
              ELSE m2
        d2 == [d EXCEPT !.generated_cell_fraction = NoFile,
                        !.generated_bulk_gep_csv = NoFile]
    IN  IF ~(d.generated_cell_fraction.exists /\ d.generated_bulk_gep_csv.exists)
        THEN [mem |-> m, disk |-> d, raised |-> FALSE]
        ELSE IF Len(common) = Len(gep) /\ Len(common) = Len(frac)
        THEN IF Len(frac) = 0
             \* gen_cell_frac.iloc[-1] of an empty table: IndexError
             THEN [mem |-> m1, disk |-> d, raised |-> TRUE]
             ELSE IF ~IsInt(RoundToken(last))
             \* int() of a token that is no number: ValueError
             THEN [mem |-> m1, disk |-> d, raised |-> TRUE]
             ELSE [mem |-> m3, disk |-> d, raised |-> FALSE]
        ELSE IF ~d.sampled_sc_cell_id.exists
        \* os.remove of a missing file: FileNotFoundError
        THEN [mem |-> m, disk |-> d2, raised |-> TRUE]
        ELSE [mem |-> m, disk |-> [d2 EXCEPT !.sampled_sc_cell_id = NoFile],
              raised |-> FALSE]

\* generate_gep up to the loop: the arguments are stored, an existing final
\* result ends the call, else the intermediate result is checked
Resume ==
    /\ pc = "idle"
    /\ LET m0 == [mem EXCEPT !.filtering_quantile_lower = job.q_lower,
                             !.filtering_quantile_upper = job.q_upper,
                             !.n_top = job.n_top]
           r == CheckIntermediate(m0, disk)
       IN  IF disk.h5ad
           THEN /\ pc' = "done"
                /\ mem' = m0
                /\ disk' = disk
           ELSE /\ pc' = IF r.raised THEN "error" ELSE "loop"
                /\ mem' = r.mem
                /\ disk' = r.disk
    /\ UNCHANGED <<drawn, mix, frac_call, gen_cell_fracs, job, stream, rngPos, killedAt, kills>>

\* ------------------------------------------------------------------ a round
\* the values of the batch drawn at stream position pos: the stream of the
\* seed when there is one, else any values (vals)
DrawnVals(j, st, pos, vals) ==
    IF Len(st) = 0 THEN vals
    ELSE [i \in Cands(j) |-> st[((pos + i - 1) % Len(st)) + 1]]

\* one row of the batch: the sample id, and the value that stands for the
\* fraction vector and the profile mixed from it
Candidate(j, n_round, i, vals) ==
    [id |-> SampleId(j.sampling_method, n_round, i),
     val |-> IF i \in DOMAIN vals THEN vals[i] ELSE 0]

\* simulated_gep as _map_cell_id2exp returns it: every sample of the batch
Batch(j, n_round, vals) ==
    [i \in 1..MinNCellFrac(j) |-> Candidate(j, n_round, i, vals)]

\* qn1.get_quantile_of_nn_distance(quantile): the radius grows with the
\* quantile; the quantile stands for it
QuantileOfNNDistance(q) == q

\* the quota of a job: 1 unless the cohort is smaller than the target
NNeighborsEachRef(m, j) ==
    IF j.n_ref < j.n_samples
    THEN CeilDiv(j.n_samples, j.n_ref - RefSkip)
    ELSE m.n_neighbors_each_ref

\* generate_gep, the first marker-ratio round of a process: the reference
\* is loaded, the quota, the counter and n_top are set
LoadMarkerRef(m, j) ==
    IF m.marker_ratio_ref THEN m
    ELSE LET quota == NNeighborsEachRef(m, j)
         IN  [m EXCEPT !.marker_ratio_ref = TRUE,
                       !.n_neighbors_each_ref = quota,
                       !.ref_neighbor_counter =
                           IF Len(@) = 0 THEN [r \in Refs(j) |-> 0] ELSE @,
                       !.n_top = Min(@, quota)]

\* a query that leaves no reference point out
KeepRefAll(m) == DOMAIN m.ref_neighbor_counter

\* _keep_ref = [i for i, j in current_ref_nc if j < self.n_neighbors_each_ref]
KeepRef(m) ==
    {r \in DOMAIN m.ref_neighbor_counter :
        m.ref_neighbor_counter[r] < m.n_neighbors_each_ref}

RECURSIVE SumOver(_, _)
\* the sum of f over the finite set S
SumOver(f, S) ==
    IF S = {} THEN 0
    ELSE LET x == CHOOSE y \in S : TRUE IN f[x] + SumOver(f, S \ {x})

\* the numbers of neighbors one reference point may get in a round: from
\* none to n_top, the numbers above MaxCand but n_top itself left out
NeighborCounts(m, j) ==
    LET top == Max(0, Min(m.n_top, MinNCellFrac(j)))
    IN  {c \in 0..top : c <= MaxCand \/ c = top}

\* what qn2.get_neighbors_by_radius may return for the kept reference
\* points: how many neighbors each gets, at most n_top, no candidate shared
\* by two points (share_neighbors=False). Which candidates they are is the
\* geometry's matter: the candidates are handed out in their order.
NeighborChoices(m, j) ==
    {nb \in [KeepRef(m) -> NeighborCounts(m, j)] :
        SumOver(nb, DOMAIN nb) <= MinNCellFrac(j)}

\* self.ref_neighbor_counter[i] += n_n['nn'] for every point with neighbors
CreditAll(counter, nb) ==
    [r \in DOMAIN counter |-> counter[r] + (IF r \in DOMAIN nb THEN nb[r] ELSE 0)]

\* _filter_gep_by_reference: the radius is computed on first use, the kept
\* points are queried, their counts grow, and the neighbors are returned in
\* the order of the points (None when there is none)
FilterGepByReference(m, j, vals, nb) ==
    LET m1 == IF m.q_dis_nn_ref_upper = 0
              THEN [m EXCEPT !.q_dis_nn_ref_upper =
                                 QuantileOfNNDistance(m.filtering_quantile_upper)]
              ELSE m
        n == SumOver(nb, DOMAIN nb)
        \* simulated_gep.loc[ref_neighbors_within_radius['nn'], :]
        rows == [k \in 1..n |-> Candidate(j, m.n_round, k, vals)]
    IN  [m1 EXCEPT !.ref_neighbor_counter = CreditAll(@, nb),
                   !.simulated_gep = IF n > 0
                                     THEN [isNone |-> FALSE, rows |-> rows]
                                     ELSE NoGep]

\* the upper quantile after a low-yield round
RelaxedQuantile(q) ==
    IF q < QuantileStepSwitch THEN q + QuantileBigStep ELSE q + QuantileSmallStep

\* a relaxation after every round, whatever its yield
RelaxAlways(m) ==
    [m EXCEPT !.filtering_quantile_upper = RelaxedQuantile(@),
              !.q_dis_nn_ref_upper =
                  QuantileOfNNDistance(RelaxedQuantile(m.filtering_quantile_upper))]

\* generate_gep after the marker-ratio filter: fewer than 50 rows (or None)
\* relax the quantile and recompute the radius
RelaxOnLowYield(m) ==
    IF m.simulated_gep.isNone \/ Len(m.simulated_gep.rows) < LowYieldFloor
    THEN [m EXCEPT !.filtering_quantile_upper = RelaxedQuantile(@),
                   !.q_dis_nn_ref_upper =
                       QuantileOfNNDistance(RelaxedQuantile(m.filtering_quantile_upper))]
    ELSE m

\* the rows at the positions of keep, in order
RowsAt(rows, keep) == [k \in 1..Len(SeqOfSet(keep)) |-> rows[SeqOfSet(keep)[k]]]

\* a band filter with both bounds exclusive
FilterL1Strict(m, j) ==
    LET up == IF m.m_gep_ref THEN m.q_dis_nn_ref_upper ELSE j.dist_upper
        rows == m.simulated_gep.rows
        m1 == [m EXCEPT !.m_gep_ref = TRUE, !.q_dis_nn_ref_upper = up]
    IN  IF m.filtering_quantile_lower # None
        THEN [m1 EXCEPT !.q_dis_nn_ref_lower = j.dist_lower,
                        !.simulated_gep.rows =
                            SelectSeq(rows, LAMBDA r : r.val < up /\ r.val > j.dist_lower)]
        ELSE [m1 EXCEPT !.simulated_gep.rows = SelectSeq(rows, LAMBDA r : r.val < up)]

\* the L1 band filter of generate_gep: the thresholds are the quantiles of
\* the reference's distances, both bounds inclusive, the lower one optional;
\* the upper one is computed in the first filtered round of a process and
\* kept in the object, the lower one is computed in every round
FilterL1(m, j) ==
    LET up == IF m.m_gep_ref THEN m.q_dis_nn_ref_upper ELSE j.dist_upper
        rows == m.simulated_gep.rows
        m1 == [m EXCEPT !.m_gep_ref = TRUE, !.q_dis_nn_ref_upper = up]
    IN  IF m.filtering_quantile_lower # None
        THEN [m1 EXCEPT !.q_dis_nn_ref_lower = j.dist_lower,
                        !.simulated_gep.rows =
                            SelectSeq(rows, LAMBDA r : r.val <= up /\ r.val >= j.dist_lower)]
        ELSE [m1 EXCEPT !.simulated_gep.rows = SelectSeq(rows, LAMBDA r : r.val <= up)]

\* n_last_part rows are kept when the batch would overshoot the target
TrimNone(m, j) == m.simulated_gep.rows

Trim(m, j) ==
    LET rows == m.simulated_gep.rows
    IN  IF m.generated_bulk_gep_counter + Len(rows) > j.n_samples
        THEN SubSeq(rows, 1, j.n_samples - m.generated_bulk_gep_counter)
        ELSE rows

\* generate_gep, lines 688-696: the batch is trimmed and counted
TrimAndCount(m, j) ==
    IF m.simulated_gep.isNone THEN [m EXCEPT !.filtered = <<>>]
    ELSE [m EXCEPT !.filtered = m.simulated_gep.rows,
                   !.simulated_gep.rows = Trim(m, j),
                   !.generated_bulk_gep_counter = @ + Len(Trim(m, j))]

\* a generate_gep that never misses its reference
MissingReferenceNever(j) == FALSE

\* if filtering: if reference_file is None or ref_exp_type is None
MissingReference(j) == j.filtering /\ ~j.has_ref

\* generate_gep, one pass of the loop body up to the call of
\* _save_simulated_bulk_gep, for the drawn values vals, the neighbors nb the
\* radius query returns, the rows gpass the gene-range filter lets pass and
\* whether the quantile computation raises (qraise)
RoundBody(m, j, vals, nb, gpass, qraise) ==
    LET m0 == [m EXCEPT !.simulated_gep = NoGep]
        \* lines 607-634; without this filter the whole batch goes on
        mA == IF IsMarker(j)
              THEN RelaxOnLowYield(FilterGepByReference(LoadMarkerRef(m0, j), j, vals, nb))
              ELSE [m EXCEPT !.simulated_gep =
                       [isNone |-> FALSE, rows |-> Batch(j, m.n_round, vals)]]
        \* lines 635-657
        mB == IF j.filtering /\ j.gene_range
              THEN [mA EXCEPT !.simulated_gep.rows =
                       RowsAt(@, gpass \cap (1..Len(@)))]
              ELSE mA
        \* lines 659-686
        mC == IF IsL1(j) /\ ~mB.simulated_gep.isNone THEN FilterL1(mB, j) ELSE mB
    IN  IF MissingReference(j)
        \* ValueError: reference_file and ref_exp_type should not be None
        THEN [mem |-> m0, raised |-> TRUE]
        ELSE IF IsMarker(j) /\ ~m.marker_ratio_ref
                /\ j.n_ref < j.n_samples /\ j.n_ref = RefSkip
        \* ZeroDivisionError in the quota
        THEN [mem |-> m0, raised |-> TRUE]
        ELSE IF IsMarker(j) /\ qraise
        \* the quantile handed to the radius computation is above 1
        THEN [mem |-> mA, raised |-> TRUE]
        ELSE IF j.filtering /\ j.gene_range /\ mA.simulated_gep.isNone
        \* simulated_gep.iterrows() of None: AttributeError
        THEN [mem |-> mA, raised |-> TRUE]
        ELSE [mem |-> TrimAndCount(mC, j), raised |-> FALSE]

\* the inputs of one round
ValChoices(j) == IF Len(stream) = 0 THEN [Cands(j) -> Vals(j)] ELSE {<<>>}

NbChoices(m, j) ==
    IF IsMarker(j) /\ j.has_ref /\ ~(j.n_ref < j.n_samples /\ j.n_ref = RefSkip)
    THEN NeighborChoices(LoadMarkerRef(m, j), j)
    ELSE {<<>>}

GeneChoices(j) == IF j.filtering /\ j.gene_range THEN SUBSET Cands(j) ELSE {Cands(j)}

\* a quantile above 1 is outside what np.quantile accepts; whether the
\* radius computation of the utility package raises is not fixed here
RaiseChoices(m, j, nb) ==
    IF IsMarker(j) /\ SumOver(nb, DOMAIN nb) < LowYieldFloor
       /\ RelaxedQuantile(m.filtering_quantile_upper) > QuantileOne
    THEN BOOLEAN ELSE {FALSE}

\* while self.generated_bulk_gep_counter < self.n_samples: one batch is
\* drawn, mixed, filtered, trimmed and counted
Round ==
    /\ pc = "loop"
    /\ mem.generated_bulk_gep_counter < job.n_samples
    /\ mem.n_round < MaxRound
    /\ \E vals \in ValChoices(job), nb \in NbChoices(mem, job), gpass \in GeneChoices(job) :
         \E qraise \in RaiseChoices(mem, job, nb) :
           LET r == RoundBody(mem, job, DrawnVals(job, stream, rngPos, vals),
                              nb, gpass, qraise)
           IN  /\ mem' = r.mem
               /\ pc' = IF r.raised THEN "error"
                        ELSE IF r.mem.simulated_gep.isNone THEN "round_end"
                        ELSE "save_gep"
    /\ rngPos' = IF Len(stream) = 0 THEN rngPos
                 ELSE (rngPos + MinNCellFrac(job)) % Len(stream)
    /\ drawn' = drawn + MinNCellFrac(job)
    /\ UNCHANGED <<mix, frac_call, gen_cell_fracs, job, stream, killedAt, kills, disk>>

\* ------------------------------------------------------------------ persist
\* to_csv, or to_csv(mode='a') when the file exists
ToCsv(file, rows) == [exists |-> TRUE, rows |-> file.rows \o rows]

\* _save_simulated_bulk_gep, the profile table
SaveGep ==
    /\ pc = "save_gep"
    /\ disk' = [disk EXCEPT !.generated_bulk_gep_csv = ToCsv(@, mem.simulated_gep.rows)]
    /\ pc' = "save_cell_id"
    /\ UNCHANGED <<drawn, mix, frac_call, gen_cell_fracs, job, stream, rngPos, killedAt, kills, mem>>

\* _save_simulated_bulk_gep, the audit trail of the drawn cells
SaveCellId ==
    /\ pc = "save_cell_id"
    /\ disk' = [disk EXCEPT !.sampled_sc_cell_id =
                   ToCsv(@, [k \in 1..Len(mem.simulated_gep.rows) |->
                                 [id |-> mem.simulated_gep.rows[k].id]])]
    /\ pc' = "save_frac"
    /\ UNCHANGED <<drawn, mix, frac_call, gen_cell_fracs, job, stream, rngPos, killedAt, kills, mem>>

\* _save_simulated_bulk_gep, the fraction table
SaveFrac ==
    /\ pc = "save_frac"
    /\ disk' = [disk EXCEPT !.generated_cell_fraction = ToCsv(@, mem.simulated_gep.rows)]
    /\ pc' = "save_quota"
    /\ UNCHANGED <<drawn, mix, frac_call, gen_cell_fracs, job, stream, rngPos, killedAt, kills, mem>>

\* _save_simulated_bulk_gep, the quota usage: written whole, when not empty
SaveQuota ==
    /\ pc = "save_quota"
    /\ disk' = IF Len(mem.ref_neighbor_counter) > 0
               THEN [disk EXCEPT !.ref_neighbor_counter =
                        [exists |-> TRUE, rows |-> mem.ref_neighbor_counter]]
               ELSE disk
    /\ pc' = "round_end"
    /\ UNCHANGED <<drawn, mix, frac_call, gen_cell_fracs, job, stream, rngPos, killedAt, kills, mem>>

\* self.n_round += 1
RoundEnd ==
    /\ pc = "round_end"
    /\ mem' = [mem EXCEPT !.n_round = @ + 1]
    /\ pc' = "loop"
    /\ UNCHANGED <<drawn, mix, frac_call, gen_cell_fracs, job, stream, rngPos, killedAt, kills, disk>>

\* ------------------------------------------------------------------ the end
\* self.q_dis_nn_ref_lower is not None: the attribute starts at 0 and holds
\* a distance afterwards
LowerIsSet(m) == m.q_dis_nn_ref_lower # None

\* the summary line multiplies filtering_quantile_lower by 100: a TypeError
\* when it is None
SummaryRaises(m, j) ==
    /\ j.sampling_method \in {"segment", "seg_random"}
    /\ LowerIsSet(m)
    /\ m.filtering_quantile_lower = None

\* the loop has ended: the summary is built and printed
Summary ==
    /\ pc = "loop"
    /\ mem.generated_bulk_gep_counter >= job.n_samples
    /\ pc' = IF SummaryRaises(mem, job) THEN "error" ELSE "h5ad"
    /\ UNCHANGED <<drawn, mix, frac_call, gen_cell_fracs, job, stream, rngPos, killedAt, kills, mem, disk>>

\* create_h5ad_dataset: the final result is assembled from the two tables
CreateH5ad ==
    /\ pc = "h5ad"
    /\ disk' = [disk EXCEPT !.h5ad = TRUE]
    /\ pc' = "done"
    /\ UNCHANGED <<drawn, mix, frac_call, gen_cell_fracs, job, stream, rngPos, killedAt, kills, mem>>

\* -------------------------------------------------------- kill and restart
\* the points where a kill leaves a different disk or a different way on:
\* inside the persist step, between two rounds, before the final result
Running == {"save_cell_id", "save_frac", "save_quota", "round_end", "h5ad"}

\* the process is killed: what it held in memory is lost
Kill ==
    /\ pc \in Running
    /\ kills < MaxKill
    /\ pc' = "killed"
    /\ killedAt' = pc
    /\ kills' = kills + 1
    /\ UNCHANGED <<drawn, mix, frac_call, gen_cell_fracs, job, stream, rngPos, mem, disk>>

\* a new process: a new object, the seed set again
Restart ==
    /\ pc = "killed"
    /\ pc' = "idle"
    /\ mem' = NewObject
    /\ rngPos' = 0
    /\ UNCHANGED <<drawn, mix, frac_call, gen_cell_fracs, job, stream, killedAt, kills, disk>>

Next ==
    \/ Resume
    \/ Round
    \/ SaveGep
    \/ SaveCellId
    \/ SaveFrac
    \/ SaveQuota
    \/ RoundEnd
    \/ Summary
    \/ CreateH5ad
    \/ Kill
    \/ Restart

Spec == Init /\ [][Next]_vars

SpecSeed == InitSeed /\ [][Next]_vars

\* --------------------------------------------------- cell fraction samplers
\* Fractions are integers in units of 0.0001; a quotient is rounded as an
\* exact rational.

RECURSIVE SumSeq(_)
SumSeq(s) == IF Len(s) = 0 THEN 0 ELSE Head(s) + SumSeq(Tail(s))

\* np.round of a / b for integers a >= 0, b > 0: to the nearest integer,
\* halves to the even one
RoundDiv(a, b) ==
    LET q == a \div b
        r == a % b
    IN  IF 2 * r < b THEN q
        ELSE IF 2 * r > b THEN q + 1
        ELSE IF q % 2 = 0 THEN q ELSE q + 1

\* DataFrame.round(4) of a / b
Round4(a, b) == RoundDiv(a * 10000, b)

\* DataFrame.round(2) of a / b
Round2(a, b) == RoundDiv(a * 100, b) * 100

Perms(n) == {p \in [1..n -> 1..n] : Range(p) = 1..n}

\* np.random.shuffle: every order of the entries
Shuffle(s) == {[k \in 1..Len(s) |-> s[p[k]]] : p \in Perms(Len(s))}

\* the largest budget whose cuts are all tried
MaxSegValue == 7

\* a draw that may return its bound
RandIntInclusive(high) == 0..high

\* np.random.randint(high) for high > 1: a value of 0..high-1; all of them
\* are tried for a small high, the ends and the middle for a large one
RandInt(high) ==
    IF high <= MaxSegValue THEN 0..(high - 1) ELSE {0, high \div 2, high - 1}

\* np.random.rand(): the draws tried, in tenths
Rand == {1, 5}

RECURSIVE SegmentCuts(_, _)
\* the integer cuts of one sample: left is current_max_value and j the cell
\* types still to cut before the last one takes what is left
SegmentCuts(left, j) ==
    IF j = 0 THEN {<<left>>}
    ELSE IF left > 1
         THEN UNION {{<<f>> \o t : t \in SegmentCuts(left - f, j - 1)} : f \in RandInt(left)}
         ELSE IF left = 1
              THEN {<<1>> \o t : t \in SegmentCuts(0, j - 1)}
              ELSE {<<0>> \o t : t \in SegmentCuts(0, j - 1)}

\* cell_prop_prior: here one range for every cell type
Priors == {NoPrior, [given |-> TRUE, lo |-> 0, hi |-> 5000]}

\* a sampler that keeps every draw
InPriorAny(cuts, max_value, prior) == TRUE

\* frag / max_value lies in the prior range of every cell type
InPrior(cuts, max_value, prior) ==
    prior.given =>
        \A k \in 1..Len(cuts) :
            /\ cuts[k] * 10000 >= prior.lo * max_value
            /\ cuts[k] * 10000 <= prior.hi * max_value

\* the samples the while loop of segment_generation_fraction appends:
\* shuffled cuts over max_value that pass the prior, rounded to 4 decimals
SegmentSamples(n_cell_type, max_value, prior) ==
    {[k \in 1..n_cell_type |-> Round4(c[k], max_value)] :
        c \in {d \in UNION {Shuffle(u) : u \in SegmentCuts(max_value, n_cell_type - 1)} :
                  SumSeq(d) = max_value /\ InPrior(d, max_value, prior)}}

\* a table of n rows with ids prefix_first, prefix_(first+1), ...
Table(columns, prefix, first, rows) ==
    [returned |-> TRUE, raised |-> FALSE, columns |-> columns,
     rows |-> [i \in 1..Len(rows) |->
                  [id |-> prefix \o <<Str(i - 1 + first)>>, frac |-> rows[i]]],
     message |-> {}]

Raised ==
    [returned |-> FALSE, raised |-> TRUE, columns |-> <<>>, rows |-> <<>>,
     message |-> {}]

\* the tables segment_generation_fraction can return
segment_generation_fraction(n_samples, max_value, cell_types, sample_prefix, prior) ==
    {Table(cell_types, sample_prefix, 1, rows) :
        rows \in [1..n_samples -> SegmentSamples(Len(cell_types), max_value, prior)]}

\* one sample of seg_random_generation_fraction before the shuffle: the
\* first segment a/10, the others b[i]/10 scaled to 1 - a/10, the whole
\* scaled to sum 1
SegRandomSample(a, b) ==
    IF Len(b) = 0 THEN <<Round4(1, 1)>>
    ELSE <<Round4(a, 10)>> \o
         [i \in 1..Len(b) |-> Round4(b[i] * (10 - a), 10 * SumSeq(b))]

SegRandomSamples(n_cell_type) ==
    UNION {Shuffle(SegRandomSample(a, b)) :
              a \in Rand, b \in [1..(n_cell_type - 1) -> Rand]}

seg_random_generation_fraction(n_samples, cell_types, sample_prefix) ==
    {Table(cell_types, sample_prefix, 1, rows) :
        rows \in [1..n_samples -> SegRandomSamples(Len(cell_types))]}

\* bin_lower_edges[k] + 0.1 * rand, in thousandths: the bins and the
\* noise tried
FragmentProps == {0 * 100 + 1, 9 * 100 + 1}

\* one row of fragment_generation_fraction from the proportions v: scaled
\* to sum 1, entries under minimal_prop = 0.005 set to 0, scaled again,
\* rounded to 4 decimals
FragmentRow(v) ==
    LET kept == [k \in 1..Len(v) |->
                    IF v[k] * 1000 < 5 * SumSeq(v) THEN 0 ELSE v[k]]
    IN  [k \in 1..Len(v) |-> Round4(kept[k], SumSeq(kept))]

FragmentRows(n_cell_type) ==
    {FragmentRow(v) : v \in [1..n_cell_type -> FragmentProps]}

fragment_generation_fraction(n_samples, cell_types, sample_prefix) ==
    {Table(cell_types, sample_prefix, 1, rows) :
        rows \in [1..n_samples -> FragmentRows(Len(cell_types))]}

\* _create_fractions without fixed_range, then round(2): rand draws divided
\* by their sum
RandomRows(n_cell_types) ==
    {[k \in 1..n_cell_types |-> Round2(d[k], SumSeq(d))] :
        d \in [1..n_cell_types -> Rand]}

random_generation_fraction(n_samples, cell_types, sample_prefix) ==
    {Table(cell_types, sample_prefix, 0, rows) :
        rows \in [1..n_samples -> RandomRows(Len(cell_types))]}

\* fillna(0) of a row of a sub-dataset in the columns of the concatenation
PadRow(row, width) ==
    [id |-> row.id,
     frac |-> [k \in 1..width |-> IF k <= Len(row.frac) THEN row.frac[k] ELSE 0]]

RECURSIVE SeqMax(_)
SeqMax(s) == IF Len(s) = 0 THEN 0 ELSE Max(Head(s), SeqMax(Tail(s)))

RECURSIVE ConcatTables(_)
\* pd.concat(gen_cell_frac_list): the rows of the sub-datasets, in order
ConcatTables(ts) == IF Len(ts) = 0 THEN <<>> ELSE Head(ts).rows \o ConcatTables(Tail(ts))

RECURSIVE SubDatasets(_, _, _, _)
\* gen_cell_frac_list: for every entry of the list, in order, a dataset of
\* per samples over the first n_cell_type cell types, ids prefix_<n>_<i>
SubDatasets(per, cell_type_used, sample_prefix, list) ==
    IF Len(list) = 0 THEN {<<>>}
    ELSE {<<t>> \o r :
            t \in fragment_generation_fraction(per,
                      SubSeq(cell_type_used, 1, Head(list)),
                      sample_prefix \o <<Str(Head(list))>>),
            r \in SubDatasets(per, cell_type_used, sample_prefix, Tail(list))}

RECURSIVE ShuffleRows(_)
\* every row of the concatenation shuffled over the columns on its own
ShuffleRows(total) ==
    IF Len(total) = 0 THEN {<<>>}
    ELSE {<<[id |-> Head(total).id, frac |-> f]>> \o r :
            f \in Shuffle(Head(total).frac), r \in ShuffleRows(Tail(total))}

\* the fragment branch with a list random_n_cell_type: a sub-dataset of
\* int(n_cell_frac / len(list)) samples for every entry, concatenated,
\* padded with 0 and every row shuffled
FragmentByList(n_cell_frac, cell_type_used, sample_prefix, random_n_cell_type) ==
    IF Len(random_n_cell_type) = 0 THEN {Raised}
    ELSE IF \E k \in 1..Len(random_n_cell_type) :
                ~(2 <= random_n_cell_type[k] /\ random_n_cell_type[k] <= Len(cell_type_used))
    THEN {Raised}
    ELSE LET per == n_cell_frac \div Len(random_n_cell_type)
             width == SeqMax(random_n_cell_type)
         IN  UNION {{[returned |-> TRUE, raised |-> FALSE,
                      columns |-> SubSeq(cell_type_used, 1, width),
                      rows |-> rows, message |-> {}] :
                        rows \in ShuffleRows([i \in 1..Len(ConcatTables(ts)) |->
                                                PadRow(ConcatTables(ts)[i], width)])} :
                    ts \in SubDatasets(per, cell_type_used, sample_prefix,
                                       random_n_cell_type)}

\* the lists random_n_cell_type tried
NCellTypeLists == {<<3>>, <<2, 3>>, <<1, 3>>}

CellTypeUsed == {SubSeq(CellTypes, 1, k) : k \in 1..Len(CellTypes)}

\* the calls of _generate_cell_fraction tried; "gradient" stands for a
\* sampling_method that is not supported
FracCalls ==
    {c \in [sampling_method : SamplingMethods \cup {"gradient"},
             n_cell_frac : 1..MaxFracSamples, cell_type_used : CellTypeUsed,
             random_n_cell_type : {<<>>}, has_list : {FALSE}, cell_prop_prior : Priors] :
        c.cell_prop_prior.given => c.sampling_method = "segment"}
    \cup
    {[sampling_method |-> "fragment", n_cell_frac |-> n, cell_type_used |-> cts,
      random_n_cell_type |-> list, has_list |-> TRUE, cell_prop_prior |-> NoPrior] :
        n \in 1..MaxFracSamples, cts \in CellTypeUsed, list \in NCellTypeLists}

\* the call has not returned
Calling(method) ==
    /\ frac_call.sampling_method = method
    /\ gen_cell_fracs = NoFracs
    /\ UNCHANGED <<drawn, mix, frac_call, job, stream, rngPos, pc, killedAt, kills, mem, disk>>

\* sample_prefix as generate_gep passes it in its first round
Prefix == SamplePrefix(frac_call.sampling_method, 0)

\* _generate_cell_fraction, sampling_method == 'segment'
GenSegment ==
    /\ Calling("segment")
    /\ gen_cell_fracs' \in segment_generation_fraction(frac_call.n_cell_frac, MaxValue,
                               frac_call.cell_type_used, Prefix, frac_call.cell_prop_prior)

\* _generate_cell_fraction, sampling_method == 'seg_random'
GenSegRandom ==
    /\ Calling("seg_random")
    /\ gen_cell_fracs' \in seg_random_generation_fraction(frac_call.n_cell_frac,
                               frac_call.cell_type_used, Prefix)

\* _generate_cell_fraction, sampling_method == 'fragment', no list
GenFragment ==
    /\ Calling("fragment")
    /\ ~frac_call.has_list
    /\ gen_cell_fracs' \in fragment_generation_fraction(frac_call.n_cell_frac,
                               frac_call.cell_type_used, Prefix)

\* _generate_cell_fraction, sampling_method == 'fragment' with a list
GenFragmentByList ==
    /\ Calling("fragment")
    /\ frac_call.has_list
    /\ gen_cell_fracs' \in FragmentByList(frac_call.n_cell_frac, frac_call.cell_type_used,
                               Prefix, frac_call.random_n_cell_type)

\* _generate_cell_fraction, sampling_method == 'random'
GenRandom ==
    /\ Calling("random")
    /\ gen_cell_fracs' \in random_generation_fraction(frac_call.n_cell_frac,
                               frac_call.cell_type_used, Prefix)

\* the names in 'Only "segment" and "random" were supported for parameter
\* "sampling_method"'
UnsupportedMessage == {"segment", "random"}

\* _generate_cell_fraction with any other sampling_method: ValueError
GenUnsupported ==
    /\ frac_call.sampling_method \notin SamplingMethods
    /\ frac_call # NoCall
    /\ gen_cell_fracs = NoFracs
    /\ gen_cell_fracs' = [Raised EXCEPT !.message = UnsupportedMessage]
    /\ UNCHANGED <<drawn, mix, frac_call, job, stream, rngPos, pc, killedAt, kills, mem, disk>>

NextFrac ==
    \/ GenSegment
    \/ GenSegRandom
    \/ GenFragment
    \/ GenFragmentByList
    \/ GenRandom
    \/ GenUnsupported

\* a call of _generate_cell_fraction with its arguments, not yet run
InitFrac ==
    /\ job = JobRandom
    /\ stream = <<>>
    /\ rngPos = 0
    /\ pc = "idle"
    /\ killedAt = "none"
    /\ kills = 0
    /\ mem = NewObject
    /\ disk = EmptyDisk
    /\ frac_call \in FracCalls
    /\ gen_cell_fracs = NoFracs
    /\ mix = NoMix
    /\ drawn = 0

SpecFrac == InitFrac /\ [][NextFrac]_vars

\* ------------------------------------------------- the cuts of a budget
\* segment_generation_fraction up to its assertion, for the budgets max_value
\* of 0..MaxSegValue: the integer units of one sample before the shuffle

\* the loop over the cell types and the assertion on the sum
SegmentUnits ==
    /\ frac_call.sampling_method = "segment_units"
    /\ gen_cell_fracs = NoFracs
    /\ \E cuts \in SegmentCuts(frac_call.max_value, Len(frac_call.cell_type_used) - 1) :
           gen_cell_fracs' = [NoFracs EXCEPT !.returned = SumSeq(cuts) = frac_call.max_value,
                                             !.raised = SumSeq(cuts) # frac_call.max_value,
                                             !.rows = cuts]
    /\ UNCHANGED <<drawn, mix, frac_call, job, stream, rngPos, pc, killedAt, kills, mem, disk>>

InitSeg ==
    /\ job = JobRandom
    /\ stream = <<>>
    /\ rngPos = 0
    /\ pc = "idle"
    /\ killedAt = "none"
    /\ kills = 0
    /\ mem = NewObject
    /\ disk = EmptyDisk
    /\ gen_cell_fracs = NoFracs
    /\ mix = NoMix
    /\ drawn = 0
    /\ \E v \in 0..MaxSegValue, cts \in CellTypeUsed :
           frac_call = [sampling_method |-> "segment_units", max_value |-> v,
                        cell_type_used |-> cts]

SpecSeg == InitSeg /\ [][SegmentUnits]_vars

\* -------------------------------------------------- cell picking and mixing
\* One batch in 'mul' mode: _sc_sampling draws one cell per (sample, cell
\* type) in a worker pool, _map_cell_id2exp mixes the expression rows of the
\* drawn cells by the fractions.

\* the columns of cell_frac, not in sorted order
MixColumns == <<"NK", "B Cells">>

\* the fraction rows tried, by column
MixFracs == {<<3000, 7000>>, <<5000, 5000>>}

\* the cells of sct_dataset_df
ScCells == {"a1", "a2", "b1", "b2"}

\* obs_df['cell_type']
CellTypeOf(c) == IF c \in {"a1", "a2"} THEN "NK" ELSE "B Cells"

\* the expression row of a cell in sct_dataset_df
ExpOf(c) ==
    CASE c = "a1" -> <<10, 0>>
      [] c = "a2" -> <<4, 2>>
      [] c = "b1" -> <<0, 20>>
      [] OTHER    -> <<6, 8>>

Genes == 1..Len(ExpOf("a1"))

\* the place of a cell type name in sorted order
Rank(ct) == CHOOSE k \in 1..Len(CellTypes) : CellTypes[k] = ct

\* cell_frac.loc[sample, cell_type]: the fraction under the column label
FracAt(cell_frac, s, ct) ==
    cell_frac[s][CHOOSE k \in 1..Len(MixColumns) : MixColumns[k] = ct]

\* cell_num_flatten concatenated: for every column of cell_num the rows of
\* all samples; get_cell_num gives n_cell = 1 when total_cell_number is 1
FlattenCellNum(n) ==
    [i \in 1..(n * Len(MixColumns)) |->
        [sample_id |-> SampleId("segment", 0, ((i - 1) % n) + 1),
         s |-> ((i - 1) % n) + 1,
         cell_type |-> MixColumns[((i - 1) \div n) + 1],
         n_cell |-> 1]]

\* results in the order the workers finished
StarmapUnordered(m) == [k \in 1..Len(m.tasks) |-> m.results[m.completed[k]]]

\* p.starmap(get_sample_id, paras): the results in the order of paras
Starmap(m) == [i \in 1..Len(m.tasks) |-> m.results[i]]

\* the sort key of a row: sample id, then cell type
SortKey(row) == ToInt(row.sample_id[4]) * 10 + Rank(row.cell_type)

RECURSIVE SortRows(_, _)
\* sort_values(by=['sample_id', 'cell_type']) of the rows with index in I
SortRows(rows, I) ==
    IF I = {} THEN <<>>
    ELSE LET i == CHOOSE x \in I : \A y \in I : SortKey(rows[x]) <= SortKey(rows[y])
         IN  <<rows[i]>> \o SortRows(rows, I \ {i})

\* the fraction that multiplies the k-th cell of a group: of the sample and
\* the cell type of that row, taken in column order
FracByColumn(cell_frac, s, group, k) == cell_frac[s][k]

\* cell_frac.loc[sample_id, _cell_types]: of the sample and the cell type
\* of that row, taken by label
FracOfRow(cell_frac, s, group, k) == FracAt(cell_frac, s, group[k].cell_type)

\* current_merged.values.T @ current_cell_frac.values for the group of
\* sample s
Linear(m, s) ==
    LET group == SelectSeq(m.sampled_cell_ids, LAMBDA r : r.s = s)
    IN  [g \in Genes |->
            SumSeq([k \in 1..Len(group) |->
                       ExpOf(group[k].selected_cell_id[1])[g]
                           * FracOfRow(m.cell_frac, s, group, k)])]

RECURSIVE ScaleDiv(_, _, _, _)
\* the quotient of a long division carried on for k more groups of three
\* decimals, rounded at the end
ScaleDiv(q, r, b, k) ==
    IF k = 0
    THEN IF 2 * r < b THEN q
         ELSE IF 2 * r > b THEN q + 1
         ELSE IF q % 2 = 0 THEN q ELSE q + 1
    ELSE ScaleDiv(q * 1000 + (r * 1000) \div b, (r * 1000) % b, b, k - 1)

\* non_log2cpm(df, sum_exp=1e6).round(3) of one row: parts per million of
\* the row sum, in units of 0.001
NonLog2Cpm(row) ==
    [g \in 1..Len(row) |->
        ScaleDiv(row[g] \div SumSeq(row), row[g] % SumSeq(row), SumSeq(row), 3)]

MixUnchanged ==
    UNCHANGED <<drawn, job, stream, rngPos, pc, killedAt, kills, mem, disk, frac_call,
                gen_cell_fracs>>

\* _sc_sampling up to the worker pool: the rows and the tasks
ScSamplingStart ==
    /\ mix.pc = "start"
    /\ mix' = [mix EXCEPT !.pc = "pool",
                          !.tasks = FlattenCellNum(Len(mix.cell_frac)),
                          !.results = [i \in 1..Len(FlattenCellNum(Len(mix.cell_frac))) |-> <<>>]]
    /\ MixUnchanged

\* a worker finishes get_sample_id for one task
WorkerDone ==
    /\ mix.pc = "pool"
    /\ \E i \in (1..Len(mix.tasks)) \ Range(mix.completed) :
           mix' = [mix EXCEPT !.completed = Append(@, i),
                              !.results[i] = <<mix.draws[<<mix.tasks[i].s, mix.tasks[i].cell_type>>]>>]
    /\ MixUnchanged

\* _sc_sampling after the pool: the results joined to the rows, sorted
ScSamplingJoin ==
    /\ mix.pc = "pool"
    /\ Len(mix.completed) = Len(mix.tasks)
    /\ mix' = [mix EXCEPT !.pc = "sampled",
                          !.sampled_cell_ids =
                              SortRows([i \in 1..Len(mix.tasks) |->
                                           [sample_id |-> mix.tasks[i].sample_id,
                                            s |-> mix.tasks[i].s,
                                            cell_type |-> mix.tasks[i].cell_type,
                                            n_cell |-> mix.tasks[i].n_cell,
                                            selected_cell_id |-> Starmap(mix)[i]]],
                                       1..Len(mix.tasks))]
    /\ MixUnchanged

\* _map_cell_id2exp with simu_method 'mul'
MapCellId2Exp ==
    /\ mix.pc = "sampled"
    /\ mix' = [mix EXCEPT !.pc = "mixed",
                          !.linear = [s \in 1..Len(mix.cell_frac) |-> Linear(mix, s)],
                          !.simulated_exp = [s \in 1..Len(mix.cell_frac) |->
                                                NonLog2Cpm(Linear(mix, s))]]
    /\ MixUnchanged

NextMix ==
    \/ ScSamplingStart
    \/ WorkerDone
    \/ ScSamplingJoin
    \/ MapCellId2Exp

\* the draws of get_sample_id: a cell of the asked type for every task
MixDraws(n) ==
    {d \in [(1..n) \X Range(MixColumns) -> ScCells] :
        \A key \in (1..n) \X Range(MixColumns) : CellTypeOf(d[key]) = key[2]}

\* a batch of fractions handed to _sc_sampling
InitMix ==
    /\ job = JobRandom
    /\ stream = <<>>
    /\ rngPos = 0
    /\ pc = "idle"
    /\ killedAt = "none"
    /\ kills = 0
    /\ mem = NewObject
    /\ disk = EmptyDisk
    /\ frac_call = NoCall
    /\ gen_cell_fracs = NoFracs
    /\ drawn = 0
    /\ \E n \in 1..MaxMixSamples :
           \E cf \in [1..n -> MixFracs], d \in MixDraws(n) :
               mix = [NoMix EXCEPT !.pc = "start", !.cell_frac = cf, !.draws = d]

SpecMix == InitMix /\ [][NextMix]_vars

\* --------------------------------------------- the single-cell-type mode
\* generate_samples of the single-cell-type generators hands every chunk of
\* the fraction table to _sc_sampling and to _map_cell_id2exp with gep_type
\* 'SCT': the cells drawn for a (sample, cell type) row are averaged.

MaxSctSamples == 2

\* n_base_for_positive_samples: 1 makes total_cell_number 0, one cell for
\* every cell type of non-zero fraction
SctBases == {1, 2}

\* the cells get_sample_id may draw for a row of n_cell cells of a type
SctDraws(ct, n_cell) ==
    {d \in [1..n_cell -> ScCells] : \A k \in 1..n_cell : CellTypeOf(d[k]) = ct}

\* the rows of positive sample s of cell type ct: the drawn cells in the row
\* of its cell type, no cell in the rows of the other cell types
SctRowsOf(s, ct, cells) ==
    [k \in 1..Len(MixColumns) |->
        [sample_id |-> SampleId("sct", 0, s), s |-> s,
         cell_type |-> MixColumns[k],
         n_cell |-> IF MixColumns[k] = ct THEN Len(cells) ELSE 0,
         selected_cell_id |-> IF MixColumns[k] = ct THEN cells ELSE <<>>]]

\* what _sc_sampling returns for a chunk of n positive samples with n_base
\* cells each: sorted by sample id and cell type
SctBatches(n, base) ==
    LET Picks == UNION {{[ct |-> ct, cells |-> d] : d \in SctDraws(ct, base)} :
                           ct \in Range(MixColumns)}
        Rows(c) == Flatten([s \in 1..n |-> SctRowsOf(s, c[s].ct, c[s].cells)])
    IN  {SortRows(Rows(c), 1..Len(Rows(c))) : c \in [1..n -> Picks]}

\* sc_ds_df.loc[cell_ids, :].mean(axis=0); the expression values are even
\* and a row has one or two cells
MeanExp(cells) ==
    [g \in Genes |-> SumSeq([k \in 1..Len(cells) |-> ExpOf(cells[k])[g]]) \div Len(cells)]

\* selected_cell_id.loc[selected_cell_id['n_cell'] > 1, :]
SctKeep(row) == row.n_cell > 1

\* _map_cell_id2exp with gep_type 'SCT': simulated_exp, keyed by the sample,
\* of the rows kept; a later row of a sample replaces an earlier one
MapSCT(rows) ==
    LET kept == SelectSeq(rows, SctKeep)
        S == {kept[k].s : k \in 1..Len(kept)}
    IN  [s \in S |->
            LET k == CHOOSE x \in 1..Len(kept) :
                        kept[x].s = s /\ \A y \in 1..Len(kept) : kept[y].s = s => y <= x
            IN  NonLog2Cpm(MeanExp(kept[k].selected_cell_id))]

\* the chunk is mixed
MapCellId2ExpSCT ==
    /\ mix.pc = "sct_sampled"
    /\ mix' = [mix EXCEPT !.pc = "sct_mixed",
                          !.simulated_exp = MapSCT(mix.sampled_cell_ids)]
    /\ MixUnchanged

\* a chunk of positive samples, its cells drawn
InitSct ==
    /\ job = JobRandom
    /\ stream = <<>>
    /\ rngPos = 0
    /\ pc = "idle"
    /\ killedAt = "none"
    /\ kills = 0
    /\ mem = NewObject
    /\ disk = EmptyDisk
    /\ frac_call = NoCall
    /\ gen_cell_fracs = NoFracs
    /\ drawn = 0
    /\ \E n \in 1..MaxSctSamples, base \in SctBases :
           \E rows \in SctBatches(n, base) :
               mix = [NoMix EXCEPT !.pc = "sct_sampled", !.sampled_cell_ids = rows]

SpecSct == InitSct /\ [][MapCellId2ExpSCT]_vars

\* ------------------------------------------- the quota of a reference cohort
\* the first marker-ratio round of generate_gep on a new object: the
\* reference of n_ref points is loaded and the quota per point is derived
\* from n_ref and n_samples (lines 609-620)

\* the jobs: cohorts n_ref and targets n_samples on both sides of the 1000
\* skipped points
QuotaJobs ==
    {Job(n, "fragment", TRUE, "marker_ratio", TRUE, None, 9980, 0, 0, FALSE, r) :
        n \in {1, 2, 3, 1000, 1001, 1002, 2000, 5000},
        r \in {1, 2, 999, 1000, 1001, 1002, 1500, 3000}}

\* the division by n_ref - 1000 raises ZeroDivisionError for 1000 points
LoadReference ==
    /\ pc = "idle"
    /\ IsMarker(job)
    /\ IF job.n_ref < job.n_samples /\ job.n_ref = RefSkip
       THEN pc' = "error" /\ mem' = mem
       ELSE /\ pc' = "reference_loaded"
            /\ mem' = LoadMarkerRef([mem EXCEPT !.n_top = job.n_top], job)
    /\ UNCHANGED <<drawn, mix, frac_call, gen_cell_fracs, job, stream, rngPos, killedAt, kills, disk>>

InitQuota == InitWith(QuotaJobs, {<<>>})

SpecQuota == InitQuota /\ [][LoadReference]_vars

\* ------------------------------------------------ the chunked generation
\* BulkGEPGeneratorSCT.generate_samples: the fraction table is written once
\* and then read in chunks; every chunk is sampled, mixed and appended to
\* the profile table and to the audit trail

\* min_n_cell_frac = np.min([100, n_samples])
SctBatch == 100
\* chunk_size = max(chunk_size, 100)
ChunkFloor == 100

ChunkSize(n) == Max(n \div Min(SctBatch, n), ChunkFloor)

\* _generate_cell_fraction(n_cell_frac=self.n_samples, sample_prefix=
\* f's_{self.bulk_dataset_name}_{sampling_method}_0')
SctFracTable(j) ==
    [i \in 1..j.n_samples |->
        [id |-> <<"s", "ds", j.sampling_method, "0",
                  Str(i - 1 + FirstIndex(j.sampling_method))>>]]

\* the k-th chunk (from 0) the reader hands out
ChunkRows(rows, n, k) ==
    SubSeq(rows, k * ChunkSize(n) + 1, Min(Len(rows), (k + 1) * ChunkSize(n)))

\* the call up to the loop: nothing to do when the result file exists, the
\* fraction table is generated unless a previous one exists
GenerateSamplesStart ==
    /\ pc = "idle"
    /\ IF disk.h5ad
       THEN pc' = "done" /\ UNCHANGED <<disk, mix>>
       ELSE /\ disk' = [disk EXCEPT !.generated_cell_fraction =
                           IF @.exists THEN @ ELSE ToCsv(@, SctFracTable(job))]
            /\ mix' = [pc |-> "reader", chunk_counter |-> 0]
            /\ pc' = "chunk"
    /\ UNCHANGED <<drawn, frac_call, gen_cell_fracs, job, stream, rngPos, killedAt, kills, mem>>

\* one pass of the loop: one profile per row of the chunk, counted and
\* appended by _save_simulated_bulk_gep
GenerateChunk ==
    /\ pc = "chunk"
    /\ mix.chunk_counter * ChunkSize(job.n_samples) < Len(disk.generated_cell_fraction.rows)
    /\ LET rows == ChunkRows(disk.generated_cell_fraction.rows, job.n_samples,
                             mix.chunk_counter)
       IN  /\ mem' = [mem EXCEPT !.generated_bulk_gep_counter = @ + Len(rows)]
           /\ disk' = [disk EXCEPT !.generated_bulk_gep_csv = ToCsv(@, rows),
                                   !.sampled_sc_cell_id = ToCsv(@, rows)]
    /\ mix' = [mix EXCEPT !.chunk_counter = @ + 1]
    /\ UNCHANGED <<drawn, frac_call, gen_cell_fracs, job, stream, rngPos, pc, killedAt, kills>>

\* the reader is exhausted: create_h5ad_dataset
GenerateFinish ==
    /\ pc = "chunk"
    /\ mix.chunk_counter * ChunkSize(job.n_samples) >= Len(disk.generated_cell_fraction.rows)
    /\ disk' = [disk EXCEPT !.h5ad = TRUE]
    /\ pc' = "done"
    /\ UNCHANGED <<drawn, mix, frac_call, gen_cell_fracs, job, stream, rngPos, killedAt, kills, mem>>

\* the process is killed between two chunks
KillChunks ==
    /\ pc = "chunk"
    /\ kills < MaxKill
    /\ pc' = "killed"
    /\ killedAt' = "chunk"
    /\ kills' = kills + 1
    /\ UNCHANGED <<drawn, mix, frac_call, gen_cell_fracs, job, stream, rngPos, mem, disk>>

InitChunks ==
    InitWith({Job(n, "random", FALSE, "none", FALSE, None, 0, 0, 0, FALSE, 0) :
                 n \in {1, 100, 101, 250, 300, 350}}, {<<>>})

SpecChunks ==
    InitChunks /\ [][GenerateSamplesStart \/ GenerateChunk \/ GenerateFinish
                        \/ KillChunks \/ Restart]_vars

\* ------------------------------------------------- the uninterrupted run
RECURSIVE Uninterrupted(_, _, _, _, _, _)
\* The tables a job with the L1 filter and seed st leaves when no process is
\* killed: the rounds of generate_gep from object m at stream position pos,
\* at most k of them, appended to rows.
Uninterrupted(j, st, m, pos, rows, k) ==
    IF m.generated_bulk_gep_counter >= j.n_samples
    THEN [complete |-> TRUE, rows |-> rows]
    ELSE IF k = 0 THEN [complete |-> FALSE, rows |-> rows]
    ELSE LET r == RoundBody(m, j, DrawnVals(j, st, pos, <<>>), <<>>, Cands(j), FALSE)
         IN  Uninterrupted(j, st, [r.mem EXCEPT !.n_round = @ + 1],
                           (pos + MinNCellFrac(j)) % Len(st),
                           rows \o r.mem.simulated_gep.rows, k - 1)

\* the object a first call of generate_gep enters the loop with
FirstObject(j) ==
    [NewObject EXCEPT !.filtering_quantile_lower = j.q_lower,
                      !.filtering_quantile_upper = j.q_upper,
                      !.n_top = j.n_top]

UninterruptedRun == Uninterrupted(job, stream, FirstObject(job), 0, <<>>, RefMaxRound)

\* ------------------------------------------------------------------ claims
Counter == mem.generated_bulk_gep_counter

SavePcs == {"save_gep", "save_cell_id", "save_frac", "save_quota"}

\* the last n entries of a sequence
LastRows(rows, n) == SubSeq(rows, Len(rows) - n + 1, Len(rows))

\* C1: the accepted-sample counter never exceeds n_samples; of a batch that
\* would overshoot only the first (n_samples - counter) profiles are kept
\* and written to the three tables; past the loop the counter equals
\* n_samples.
C1_CounterWithinTarget ==
    /\ Counter <= job.n_samples
    /\ pc = "h5ad" => Counter = job.n_samples
    /\ pc \in SavePcs =>
         LET kept == mem.simulated_gep.rows
             before == Counter - Len(kept)
         IN  /\ kept = SubSeq(mem.filtered, 1,
                              Min(Len(mem.filtered), job.n_samples - before))
             /\ pc = "save_quota" =>
                  /\ LastRows(disk.generated_bulk_gep_csv.rows, Len(kept)) = kept
                  /\ LastRows(disk.generated_cell_fraction.rows, Len(kept)) = kept
                  /\ Ids(LastRows(disk.sampled_sc_cell_id.rows, Len(kept))) = Ids(kept)

\* a batch was trimmed and the trimmed batch is on disk
C1_Witness ==
    /\ pc = "save_quota"
    /\ Len(mem.filtered) > Len(mem.simulated_gep.rows)
    /\ Counter = job.n_samples

\* C2: a job that has reached its target never ends in an error before the
\* final output is written.
C2_NoErrorAtTarget == ~(pc = "error" /\ Counter >= job.n_samples /\ ~disk.h5ad)

IdSet(file) == Range(Ids(file.rows))

Tables(d) == {d.generated_cell_fraction, d.generated_bulk_gep_csv, d.sampled_sc_cell_id}

\* the partial tables disagree on the accepted sample ids: one exists and
\* another does not, or two hold different ids
Disagree(d) ==
    /\ \E t \in Tables(d) : t.exists
    /\ \E t1, t2 \in Tables(d) : t1.exists # t2.exists \/ IdSet(t1) # IdSet(t2)

\* a step of Resume that checks the intermediate result
ResumeStep == pc = "idle" /\ pc' # "idle" /\ ~disk.h5ad

\* C3: when the partial artifacts disagree on the accepted sample ids,
\* Resume discards all of them and the job restarts from zero.
C3_DisagreeDiscards ==
    [][(ResumeStep /\ Disagree(disk)) =>
         /\ disk' = EmptyDisk
         /\ mem'.generated_bulk_gep_counter = 0
         /\ mem'.n_round = 0
         /\ mem'.ref_neighbor_counter = <<>>]_vars

\* C4: after a kill between two rounds Resume recovers the last persisted
\* round: no row is removed or added, the counter is the number of persisted
\* samples, the quota usage is the persisted one, and the loop goes on.
C4_CleanKillResumes ==
    [][(ResumeStep /\ killedAt = "round_end") =>
         /\ pc' = "loop"
         /\ disk' = disk
         /\ mem'.generated_bulk_gep_counter = Len(disk.generated_cell_fraction.rows)
         /\ disk.ref_neighbor_counter.exists =>
              mem'.ref_neighbor_counter = disk.ref_neighbor_counter.rows]_vars

\* the round number a sample id was built with: the third piece of
\* s_<strategy>_<round>_<i>
RoundOf(id) == CHOOSE n \in 0..9 : Str(n) = id[3]

\* the two tables exist, hold the same ids and at least one
AgreeNonEmpty(d) ==
    /\ d.generated_cell_fraction.exists
    /\ d.generated_bulk_gep_csv.exists
    /\ IdSet(d.generated_cell_fraction) = IdSet(d.generated_bulk_gep_csv)
    /\ Len(d.generated_cell_fraction.rows) > 0

\* C5: when the fraction table and the profile table agree, Resume sets the
\* counter to the number of their common ids and the round number to one
\* more than the round of the last persisted sample, for every strategy.
C5_ResumeCounters ==
    [][(ResumeStep /\ AgreeNonEmpty(disk)) =>
         LET frac == disk.generated_cell_fraction
         IN  /\ pc' = "loop"
             /\ mem'.generated_bulk_gep_counter =
                    Cardinality(IdSet(frac) \cap IdSet(disk.generated_bulk_gep_csv))
             /\ mem'.n_round = RoundOf(frac.rows[Len(frac.rows)].id) + 1]_vars

\* a job with seg_random ids was resumed from a persisted round
C5_Witness ==
    /\ pc = "loop"
    /\ kills > 0
    /\ job.sampling_method = "seg_random"
    /\ Counter > 0
    /\ mem.n_round > 0
    /\ mem.filtered = <<>>
    /\ mem.simulated_gep.isNone

\* C6: under a fixed seed a job that was interrupted after a round and
\* started again ends with the tables of the uninterrupted run: the same
\* sample ids with the same values.
C6_ResumeSameResult ==
    (pc = "done" /\ killedAt \in {"none", "round_end"} /\ UninterruptedRun.complete) =>
        /\ disk.generated_cell_fraction.rows = UninterruptedRun.rows
        /\ disk.generated_bulk_gep_csv.rows = UninterruptedRun.rows

\* the quota of the job
Quota == NNeighborsEachRef(NewObject, job)

\* C7: no reference point is credited more neighbors than the quota.
C7_CreditsWithinQuota ==
    \A r \in DOMAIN mem.ref_neighbor_counter : mem.ref_neighbor_counter[r] <= Quota

\* C8: the upper filtering quantile never exceeds 1.
C8_QuantileCeiling == mem.filtering_quantile_upper <= QuantileOne

Returned == gen_cell_fracs.returned /\ ~gen_cell_fracs.raised

\* C9: every fraction vector a sampler returns has non-negative entries
\* that sum, as rounded, to 1 within 0.001.
C9_FractionsSumToOne ==
    Returned =>
        \A i \in 1..Len(gen_cell_fracs.rows) :
            LET frac == gen_cell_fracs.rows[i].frac
            IN  /\ \A k \in 1..Len(frac) : frac[k] >= 0
                /\ SumSeq(frac) >= 10000 - 10
                /\ SumSeq(frac) <= 10000 + 10

\* C10: _generate_cell_fraction returns exactly n_cell_frac fraction
\* vectors, each over exactly the configured cell types.
C10_OneVectorPerSample ==
    Returned =>
        /\ Len(gen_cell_fracs.rows) = frac_call.n_cell_frac
        /\ gen_cell_fracs.columns = frac_call.cell_type_used
        /\ \A i \in 1..Len(gen_cell_fracs.rows) :
               Len(gen_cell_fracs.rows[i].frac) = Len(frac_call.cell_type_used)

\* C11: segment_generation_fraction with a prior range returns exactly
\* n_samples rows and no fraction of a returned row lies below the low
\* bound or above the high bound of the prior.
C11_PriorRespected ==
    (Returned /\ frac_call.sampling_method = "segment" /\ frac_call.cell_prop_prior.given) =>
        /\ Len(gen_cell_fracs.rows) = frac_call.n_cell_frac
        /\ \A i \in 1..Len(gen_cell_fracs.rows) :
               \A k \in 1..Len(gen_cell_fracs.rows[i].frac) :
                   /\ gen_cell_fracs.rows[i].frac[k] >= frac_call.cell_prop_prior.lo
                   /\ gen_cell_fracs.rows[i].frac[k] <= frac_call.cell_prop_prior.hi

\* a segment call with a prior returned several rows, one of them at the
\* high bound of the prior
C11_Witness ==
    /\ Returned
    /\ frac_call.sampling_method = "segment"
    /\ frac_call.cell_prop_prior.given
    /\ Len(gen_cell_fracs.rows) > 1
    /\ \E i \in 1..Len(gen_cell_fracs.rows) :
           \E k \in 1..Len(gen_cell_fracs.rows[i].frac) :
               gen_cell_fracs.rows[i].frac[k] = frac_call.cell_prop_prior.hi

\* the profile of sample s as the claim states it: the sum over the cell
\* types of the fraction of the type times the row of the cell drawn for it
ExpectedLinear(s) ==
    [g \in Genes |->
        SumSeq([k \in 1..Len(MixColumns) |->
                   mix.cell_frac[s][k] * ExpOf(mix.draws[<<s, MixColumns[k]>>])[g]])]

\* C12: in 'mul' mode the linear profile of every sample is the sum over
\* the cell types of fraction[t] times the expression row of the cell drawn
\* for the same type t.
C12_PairedByCellType ==
    mix.pc = "mixed" =>
        \A s \in 1..Len(mix.cell_frac) : mix.linear[s] = ExpectedLinear(s)

\* fractions 0.3 and 0.7 with the rows [10, 0] and [0, 20] give [3, 14]
C12_Witness ==
    /\ mix.pc = "mixed"
    /\ mix.cell_frac[1] = <<3000, 7000>>
    /\ mix.draws[<<1, "NK">>] = "a1"
    /\ mix.draws[<<1, "B Cells">>] = "b1"
    /\ mix.linear[1] = <<3 * 10000, 14 * 10000>>

\* the rows of the table are in ascending (sample id, cell type) order
SortedBySampleAndType(rows) ==
    \A i \in 1..(Len(rows) - 1) : SortKey(rows[i]) < SortKey(rows[i + 1])

\* C17: for every order in which the workers finish, each drawn list of
\* cell ids is attached to the (sample id, cell type) row that asked for
\* it, and the table handed to the mixer is ordered by (sample id, cell
\* type).
C17_ScheduleIndependent ==
    mix.pc \in {"sampled", "mixed"} =>
        /\ Len(mix.sampled_cell_ids) = Len(mix.cell_frac) * Len(MixColumns)
        /\ SortedBySampleAndType(mix.sampled_cell_ids)
        /\ \A i \in 1..Len(mix.sampled_cell_ids) :
               mix.sampled_cell_ids[i].selected_cell_id =
                   <<mix.draws[<<mix.sampled_cell_ids[i].s,
                                 mix.sampled_cell_ids[i].cell_type>>]>>

\* the table was joined after the last task finished first and two tasks
\* of one sample drew different cells
C17_Witness ==
    /\ mix.pc = "sampled"
    /\ Len(mix.completed) > 1
    /\ mix.completed[1] = Len(mix.tasks)
    /\ mix.draws[<<1, "NK">>] = "a2"
    /\ mix.draws[<<1, "B Cells">>] = "b1"

\* the distance d lies in the band of the job: at most the upper quantile
\* distance and, when a lower quantile is configured, at least the lower one
InBand(d) == d <= job.dist_upper /\ (job.q_lower # None => d >= job.dist_lower)

\* C13: in every round with the L1 band filter the accepted candidates are
\* exactly those of the batch whose distance d satisfies lower <= d <= upper,
\* or d <= upper when the lower quantile is omitted.
C13_BandInclusive ==
    [][(pc = "loop" /\ pc' = "save_gep" /\ IsL1(job)) =>
          mem'.filtered =
              SelectSeq(Batch(job, mem.n_round, DrawnVals(job, stream, rngPos, <<>>)),
                        LAMBDA r : InBand(r.val))]_vars

\* a later round of a job with both quantiles accepted a candidate on the
\* bounds and rejected another
C13_Witness ==
    /\ pc = "save_gep"
    /\ mem.n_round >= 1
    /\ job.q_lower # None
    /\ Len(mem.filtered) = 1
    /\ mem.filtered[1].val = job.dist_upper
    /\ mem.filtered[1].val = job.dist_lower

\* C14: with filtering enabled and no reference, the round of generate_gep
\* fails; nothing has been written and the accepted count and the round
\* number are what they were.
C14_MissingReferenceFails ==
    [][(pc = "loop" /\ pc' # "loop" /\ job.filtering /\ ~job.has_ref
            /\ Counter < job.n_samples) =>
          /\ pc' = "error"
          /\ disk = EmptyDisk
          /\ disk' = disk
          /\ mem'.generated_bulk_gep_counter = Counter
          /\ mem'.n_round = mem.n_round]_vars

\* the job without a reference has failed in its first round
C14_Witness ==
    /\ pc = "error"
    /\ job.filtering
    /\ ~job.has_ref
    /\ disk = EmptyDisk
    /\ Counter = 0
    /\ mem.n_round = 0

\* C15: a call of _generate_cell_fraction with a strategy name outside the
\* supported set fails with an error whose message lists the whole
\* supported set; no fraction vector is returned and nothing is written.
C15_ErrorListsSupportedSet ==
    (frac_call # NoCall /\ frac_call.sampling_method \notin SamplingMethods
         /\ gen_cell_fracs # NoFracs) =>
        /\ gen_cell_fracs.raised
        /\ ~gen_cell_fracs.returned
        /\ gen_cell_fracs.rows = <<>>
        /\ disk = EmptyDisk
        /\ gen_cell_fracs.message = SamplingMethods

\* the filter policies generate_gep knows
SupportedFilters == {"marker_ratio", "median_gep", "mean_gep"}

\* C16: with filtering enabled and a filter policy name outside the
\* supported set, no candidate is ever accepted or persisted.
C16_UnsupportedFilterRejected ==
    (job.filtering /\ job.filtering_method \notin SupportedFilters) =>
        /\ Counter = 0
        /\ disk.generated_bulk_gep_csv.rows = <<>>
        /\ disk.generated_cell_fraction.rows = <<>>

\* the round of object m accepted nothing, or its rows are the last rows of
\* the three tables and its quota usage is the one in the quota table
RoundPersisted(m) ==
    LET kept == m.simulated_gep.rows
    IN  m.simulated_gep.isNone \/
        /\ Len(disk.generated_bulk_gep_csv.rows) >= Len(kept)
        /\ Len(disk.generated_cell_fraction.rows) >= Len(kept)
        /\ Len(disk.sampled_sc_cell_id.rows) >= Len(kept)
        /\ LastRows(disk.generated_bulk_gep_csv.rows, Len(kept)) = kept
        /\ LastRows(disk.generated_cell_fraction.rows, Len(kept)) = kept
        /\ Ids(LastRows(disk.sampled_sc_cell_id.rows, Len(kept))) = Ids(kept)
        /\ m.ref_neighbor_counter # <<>> =>
               disk.ref_neighbor_counter.rows = m.ref_neighbor_counter

\* C18: in a round of generate_gep the artifacts of the round are on disk
\* before the accepted counter is raised and before the round number is
\* raised.
C18_PersistBeforeCount ==
    [][(pc \notin {"idle", "killed"}) =>
          /\ mem'.generated_bulk_gep_counter > Counter => RoundPersisted(mem')
          /\ mem'.n_round > mem.n_round => RoundPersisted(mem')]_vars

\* the part of C18 about the round number
C18_RoundNumberPart ==
    [][(pc \notin {"idle", "killed"} /\ mem'.n_round > mem.n_round) =>
          RoundPersisted(mem')]_vars

\* the three tables hold the same set of sample ids
SameIds(d) ==
    /\ IdSet(d.generated_cell_fraction) = IdSet(d.generated_bulk_gep_csv)
    /\ IdSet(d.generated_cell_fraction) = IdSet(d.sampled_sc_cell_id)

\* the rows of old are the first rows of new, unchanged
IsPrefixOf(old, new) ==
    /\ Len(old) <= Len(new)
    /\ SubSeq(new, 1, Len(old)) = old

\* no row of a table of d is missing or changed in e
AppendOnly(d, e) ==
    /\ IsPrefixOf(d.generated_cell_fraction.rows, e.generated_cell_fraction.rows)
    /\ IsPrefixOf(d.generated_bulk_gep_csv.rows, e.generated_bulk_gep_csv.rows)
    /\ IsPrefixOf(d.sampled_sc_cell_id.rows, e.sampled_sc_cell_id.rows)

\* a step of Resume that removes the three tables
ResumeDiscards ==
    /\ ResumeStep
    /\ \A t \in Tables(disk') : ~t.exists

\* the first half of C19: when a round is complete the three tables hold the
\* same ids
C19_SameIdsAfterRound == pc = "round_end" => SameIds(disk)

\* the second half of C19: every step keeps the persisted rows, but for a
\* Resume that discards all artifacts
C19_TablesAppendOnly ==
    [][ResumeDiscards \/ AppendOnly(disk, disk')]_vars

\* C19: after every completed round the fraction table, the profile table
\* and the audit trail hold the same set of sample ids, and a persisted row
\* stays, unchanged, in every later state unless Resume discards all
\* artifacts.
C19_SameIdsAppendOnly ==
    [][/\ pc' = "round_end" => SameIds(disk')
       /\ ResumeDiscards \/ AppendOnly(disk, disk')]_vars

\* the candidate total of the summary: msg of generate_gep multiplies the
\* round number by the batch size
ReportedTotal(m, j) == m.n_round * MinNCellFrac(j)

\* the step that builds the summary
SummaryStep ==
    /\ pc = "loop"
    /\ mem.generated_bulk_gep_counter >= job.n_samples
    /\ pc' \in {"h5ad", "error"}

\* C20: the candidate total the summary reports is the number of candidates
\* drawn over the whole job, also after rounds that accepted nothing and
\* after a kill between two rounds and a resume.
C20_ReportedTotalIsDrawn ==
    [][(SummaryStep /\ killedAt \in {"none", "round_end"}) =>
          ReportedTotal(mem, job) = drawn]_vars

\* the same in a job that was never killed
C20_UninterruptedPart ==
    [][(SummaryStep /\ kills = 0) => ReportedTotal(mem, job) = drawn]_vars

\* the credits of all reference points of object m
Credits(m) == SumOver(m.ref_neighbor_counter, DOMAIN m.ref_neighbor_counter)

\* a round of a marker-ratio job, and one that went on to its end
MarkerRound == pc = "loop" /\ IsMarker(job) /\ mem.generated_bulk_gep_counter < job.n_samples

MarkerRoundDone == MarkerRound /\ pc' \in {"save_gep", "round_end"}

\* the candidates the marker-ratio filter returned in the round of this step
Passed == Credits(mem') - Credits(mem)

\* a step of the running process
InProcess == pc \notin {"idle", "killed"}

\* the quantile is changed by low-yield rounds alone, by the two step sizes,
\* with the radius recomputed, and never downwards while the process runs
QuantileRule ==
    /\ InProcess => mem'.filtering_quantile_upper >= mem.filtering_quantile_upper
    /\ (InProcess /\ mem'.filtering_quantile_upper # mem.filtering_quantile_upper) =>
          /\ MarkerRound
          /\ Passed < LowYieldFloor
          /\ mem'.filtering_quantile_upper =
                 mem.filtering_quantile_upper +
                    (IF mem.filtering_quantile_upper < QuantileStepSwitch
                     THEN QuantileBigStep ELSE QuantileSmallStep)
          /\ mem'.q_dis_nn_ref_upper =
                 QuantileOfNNDistance(mem'.filtering_quantile_upper)
    /\ (MarkerRoundDone /\ Passed < LowYieldFloor) =>
          mem'.filtering_quantile_upper > mem.filtering_quantile_upper

\* what passed the filter in a low-yield round goes on to the persist step,
\* but for the excess beyond the target
LowYieldKept ==
    (MarkerRound /\ ~job.gene_range /\ Passed > 0 /\ Passed < LowYieldFloor) =>
        /\ pc' = "save_gep"
        /\ Len(mem'.simulated_gep.rows) =
               Min(Passed, job.n_samples - mem.generated_bulk_gep_counter)

\* C21 with the rounds that end in an error counted in: what passed in such
\* a round is not persisted
C21_WithFailedRounds == [][QuantileRule /\ LowYieldKept]_vars

C22_FullPointsExcluded ==
    [][(InProcess /\ IsMarker(job)) =>
          \A r \in DOMAIN mem.ref_neighbor_counter :
              /\ r \in DOMAIN mem'.ref_neighbor_counter
              /\ mem'.ref_neighbor_counter[r] >= mem.ref_neighbor_counter[r]
              /\ mem.ref_neighbor_counter[r] >= mem'.n_neighbors_each_ref =>
                     mem'.ref_neighbor_counter[r] = mem.ref_neighbor_counter[r]]_vars

\* a round has just given credit, and none to a point that was at its quota
\* when the round before was persisted
C22_Witness ==
    /\ IsMarker(job)
    /\ pc = "save_gep"
    /\ mem.n_round >= 1
    /\ disk.ref_neighbor_counter.exists
    /\ Credits(mem) > SumSeq(disk.ref_neighbor_counter.rows)
    /\ \E r \in DOMAIN mem.ref_neighbor_counter :
          /\ mem.ref_neighbor_counter[r] >= mem.n_neighbors_each_ref
          /\ disk.ref_neighbor_counter.rows[r] = mem.ref_neighbor_counter[r]

\* C23: in the single-cell-type mode every row with at least one selected
\* cell yields the mean of its cells as profile (as parts per million), a
\* row of exactly one cell included, so a chunk yields one profile for each
\* of its samples.
C23_EveryRowYieldsMean ==
    mix.pc = "sct_mixed" =>
        /\ \A k \in 1..Len(mix.sampled_cell_ids) :
              LET row == mix.sampled_cell_ids[k]
              IN  Len(row.selected_cell_id) >= 1 =>
                      /\ row.s \in DOMAIN mix.simulated_exp
                      /\ mix.simulated_exp[row.s] =
                             NonLog2Cpm(MeanExp(row.selected_cell_id))
        /\ Cardinality(DOMAIN mix.simulated_exp) =
               Cardinality({mix.sampled_cell_ids[k].s : k \in 1..Len(mix.sampled_cell_ids)})

\* C23 for the rows of two cells or more
C23_RowsOfSeveralCells ==
    mix.pc = "sct_mixed" =>
        \A k \in 1..Len(mix.sampled_cell_ids) :
            LET row == mix.sampled_cell_ids[k]
            IN  Len(row.selected_cell_id) >= 2 =>
                    /\ row.s \in DOMAIN mix.simulated_exp
                    /\ mix.simulated_exp[row.s] =
                           NonLog2Cpm(MeanExp(row.selected_cell_id))

\* what is left of the budget before the k-th cut
Remaining(cuts, max_value, k) == max_value - SumSeq(SubSeq(cuts, 1, k - 1))

\* C24: in segment_generation_fraction the units of the cell types are each
\* within 0..max_value and sum to max_value, so the assertion holds, and a
\* cut drawn while more than one unit is left is smaller than what is left.
C24_UnitsSumToBudget ==
    (frac_call.sampling_method = "segment_units" /\ gen_cell_fracs # NoFracs) =>
        LET cuts == gen_cell_fracs.rows
            max_value == frac_call.max_value
        IN  /\ ~gen_cell_fracs.raised
            /\ Len(cuts) = Len(frac_call.cell_type_used)
            /\ \A k \in 1..Len(cuts) : cuts[k] >= 0 /\ cuts[k] <= max_value
            /\ SumSeq(cuts) = max_value
            /\ \A k \in 1..(Len(cuts) - 1) :
                   Remaining(cuts, max_value, k) > 1 =>
                       cuts[k] < Remaining(cuts, max_value, k)

\* three cell types, two cuts drawn with more than one unit left
C24_Witness ==
    /\ frac_call.sampling_method = "segment_units"
    /\ gen_cell_fracs.returned
    /\ Len(gen_cell_fracs.rows) = 3
    /\ gen_cell_fracs.rows[1] > 0
    /\ Remaining(gen_cell_fracs.rows, frac_call.max_value, 2) > 1
    /\ gen_cell_fracs.rows[2] > 0

\* the kill came inside the persist step of a round
KilledInPersist == killedAt \in {"save_cell_id", "save_frac", "save_quota"}

\* the job starts again from zero, no partial artifact left
FromZero(d, m) ==
    /\ \A t \in Tables(d) : ~t.exists
    /\ ~d.ref_neighbor_counter.exists
    /\ m.generated_bulk_gep_counter = 0
    /\ m.n_round = 0

\* the job goes on from whole rounds: the three tables hold the same rows,
\* the counter is their number, and with the marker-ratio filter every
\* persisted sample has its credit in the quota usage
FromWholeRound(d, m) ==
    /\ \A t \in Tables(d) : t.exists
    /\ SameIds(d)
    /\ Len(d.generated_bulk_gep_csv.rows) = Len(d.generated_cell_fraction.rows)
    /\ Len(d.sampled_sc_cell_id.rows) = Len(d.generated_cell_fraction.rows)
    /\ m.generated_bulk_gep_counter = Len(d.generated_cell_fraction.rows)
    /\ IsMarker(job) => Credits(m) >= m.generated_bulk_gep_counter

\* C25: after a kill inside the persist step of a round, the first one
\* included, the next run goes on from the last whole round or starts from
\* zero with every partial artifact removed; it does not go on with a table
\* that holds rows of the partial round or with a quota table older than the
\* persisted samples.
C25_PartialRoundNeverKept ==
    [][(ResumeStep /\ KilledInPersist) =>
          /\ pc' = "loop"
          /\ FromZero(disk', mem') \/ FromWholeRound(disk', mem')]_vars

\* the same for a kill after the three tables were appended, in a job whose
\* rounds write no quota table
C25_NoQuotaPart ==
    [][(ResumeStep /\ killedAt = "save_quota" /\ ~IsMarker(job)
           /\ Len(disk.generated_cell_fraction.rows) > 0) =>
          /\ pc' = "loop"
          /\ FromWholeRound(disk', mem')]_vars

\* no two rows of the table have the same sample id
DistinctIds(file) == Cardinality(IdSet(file)) = Len(file.rows)

\* every id of the table was built in a round before round n
RoundsBelow(file, n) == \A k \in 1..Len(file.rows) : RoundOf(file.rows[k].id) < n

\* C26: the sample ids a job has persisted are pairwise distinct in every
\* table, whatever rounds, empty rounds, kills and restarts came before, and
\* a round that persists rows has a round number above that of every id
\* persisted before.
C26_IdsDistinct ==
    /\ \A t \in Tables(disk) : DistinctIds(t)
    /\ pc = "save_gep" => \A t \in Tables(disk) : RoundsBelow(t, mem.n_round)

\* C26 in the jobs that were never killed or were killed between two rounds
C26_CleanKillPart ==
    killedAt \in {"none", "round_end"} => C26_IdsDistinct

\* a round of a job with the marker-ratio filter and the gene-range filter
RangeRound ==
    /\ pc = "loop"
    /\ IsMarker(job) /\ job.gene_range
    /\ mem.generated_bulk_gep_counter < job.n_samples

\* C27: with the marker-ratio filter and the gene-range filter both on, a
\* round in which the marker-ratio filter accepts nothing ends with nothing
\* accepted and nothing persisted, and the loop goes on; the job does not
\* fail.
C27_EmptyMarkerRoundGoesOn ==
    [][(RangeRound /\ Passed = 0 /\ pc' # "loop") =>
          /\ pc' = "round_end"
          /\ mem'.generated_bulk_gep_counter = mem.generated_bulk_gep_counter
          /\ disk' = disk]_vars

\* with a candidate returned by the marker-ratio filter the round goes on to
\* the gene-range filter, whatever that one lets pass
C27_NonEmptyPart ==
    [][(RangeRound /\ Passed > 0 /\ pc' # "loop") =>
          pc' \in {"save_gep", "round_end", "error"}
          /\ (pc' = "error" => mem'.filtering_quantile_upper > QuantileOne)]_vars

\* C28: with the marker-ratio filter, after every persisted round the
\* credits of the quota table sum to the number of samples in the profile
\* table: no credit for a candidate that is trimmed, rejected by the
\* gene-range filter or not persisted for another reason.
C28_CreditsArePersisted ==
    (IsMarker(job) /\ killedAt = "none" /\ pc = "round_end"
        /\ disk.ref_neighbor_counter.exists) =>
        SumSeq(disk.ref_neighbor_counter.rows) = Len(disk.generated_bulk_gep_csv.rows)

\* the credits are never fewer than the persisted samples
C28_CreditsCoverPersisted ==
    (IsMarker(job) /\ killedAt = "none" /\ pc = "round_end"
        /\ disk.ref_neighbor_counter.exists) =>
        SumSeq(disk.ref_neighbor_counter.rows) >= Len(disk.generated_bulk_gep_csv.rows)

\* C29: the quota per reference point is an integer >= 1 for every cohort
\* size n_ref >= 1 and every target n_samples >= 1, and n_ref times the
\* quota is at least n_samples.
C29_QuotaReachesTarget ==
    pc # "idle" =>
        /\ pc = "reference_loaded"
        /\ mem.n_neighbors_each_ref >= 1
        /\ job.n_ref * mem.n_neighbors_each_ref >= job.n_samples

\* the same for the cohorts of more than 1000 points and for the cohorts
\* that are not smaller than the target
C29_LargeCohortPart ==
    (pc # "idle" /\ (job.n_ref > RefSkip \/ job.n_ref >= job.n_samples)) =>
        /\ pc = "reference_loaded"
        /\ mem.n_neighbors_each_ref >= 1
        /\ job.n_ref * mem.n_neighbors_each_ref >= job.n_samples

\* the profile table holds every sample id of the fraction table once
EachIdOnce(d) ==
    /\ IdSet(d.generated_bulk_gep_csv) = IdSet(d.generated_cell_fraction)
    /\ DistinctIds(d.generated_bulk_gep_csv)

\* C30: when generate_samples of the single-cell-type generators is killed
\* after some chunks were persisted and started again, at completion the
\* profile table holds each sample id of the fraction table exactly once and
\* the accepted count is the number of rows of the fraction table.
C30_RestartKeepsEachIdOnce ==
    (pc = "done" /\ kills > 0) =>
        /\ EachIdOnce(disk)
        /\ mem.generated_bulk_gep_counter = Len(disk.generated_cell_fraction.rows)

\* the same for a call that was never killed
C30_UninterruptedPart ==
    (pc = "done" /\ kills = 0) =>
        /\ EachIdOnce(disk)
        /\ mem.generated_bulk_gep_counter = Len(disk.generated_cell_fraction.rows)

\* the count of the last process is the number of rows of the fraction table
C30_CountPart ==
    pc = "done" =>
        mem.generated_bulk_gep_counter = Len(disk.generated_cell_fraction.rows)
====
